---- MODULE Spec2Model ----
(***************************************************************************)
(* Model of the Debian source package loader (swh.loader.debian).          *)
(*                                                                         *)
(* Spec    : the loader library (loader.py, converters.py): the generator  *)
(*           process_source_packages and a consumer that holds the         *)
(*           partial result it yields and calls try_flush_partial,         *)
(*           flush_content and flush_directory on it.                      *)
(* RunSpec : the task LoadSnapshotPackages.run (tasks.py).                 *)
(***************************************************************************)
EXTENDS Integers, Sequences, FiniteSets, TLC

\* ------------------------------------------------------------------ bounds
\* Number of packages the input iterable can hold.
MaxPackages == 3

\* ------------------------------------------------------------------ inputs
\* Content identifiers (sha1_git of a blob) and the byte length of the blob
\* each one names: the identifier is a hash of the bytes, so the length is a
\* function of it.
ContentIds == {"a", "b", "c"}
Length == [c \in ContentIds |-> IF c = "a" THEN 1 ELSE IF c = "b" THEN 2 ELSE 4]
\* Directory identifiers (sha1_git of a tree).
DirIds == {"d1", "d2"}

Blob(c) == [type |-> "blob", id |-> c]
Tree(d) == [type |-> "tree", id |-> d]

\* The walker's output for one extracted package, as the list of members
\* dedup_objects iterates over: the root tree, then one or two blobs (two
\* blobs of one package may hold the same bytes).
Walks ==
    { <<Tree(d), Blob(c)>> : d \in DirIds, c \in ContentIds }
    \cup { <<Tree(w[1]), Blob(w[2]), Blob(w[3])>> :
              w \in { v \in DirIds \X ContentIds \X ContentIds :
                         Length[v[2]] <= Length[v[3]] } }

\* What process_source_package does with one package.
\*   no_dsc         : the .dsc file does not exist (FileNotFoundError)
\*   extract_failed : dpkg-source exits nonzero (PackageExtractionFailed)
\*   error          : the tree walk or get_package_metadata raises
\*   ok             : the package and its deduplicated objects are returned
Outcomes == {"no_dsc", "extract_failed", "error", "ok"}

\* The thresholds handed to try_flush_partial. Under the first, two pending
\* contents or two pending directories reach a threshold and "c" is too long
\* to count in the volume; under the second, a volume of 3 bytes does.
Configs ==
    { [content_packet_size |-> 2, content_packet_length |-> 4,
       content_max_length_one |-> 2, directory_packet_size |-> 2],
      [content_packet_size |-> 3, content_packet_length |-> 3,
       content_max_length_one |-> 4, directory_packet_size |-> 3] }

\* Inputs of the task: the source package names, in their sort order, and
\* the versions the snapshot database may hold of each.
Names == {"bar", "foo"}
NameRank == [n \in Names |-> IF n = "bar" THEN 1 ELSE 2]
Versions == {1, 2}
\* A source package of the database; extracts tells whether
\* process_source_package succeeds on it.
SourcePackages == [name : Names, version : Versions, extracts : BOOLEAN]

VARIABLES
    content,          \* objects['content']: id -> path of the transient file
    directory,        \* objects['directory']: the ids of the pending directories
    content_seen,     \* objects['content_seen']
    directory_seen,   \* objects['directory_seen']
    ret_packages,     \* the packages processed so far
    tempdirs,         \* the temporary directories recorded so far
    gen_state,        \* the generator: created, running, suspended, done,
                      \* or closed once an exception has unwound its consumer
    input_log,        \* per package consumed from the iterable, in order:
                      \* "ok" or "skipped"
    n_yields,         \* number of partial results yielded
    fs_dirs,          \* temporary directories that exist on disk
    fs_files,         \* transient files of processed packages on disk
    content_queried,  \* content ids passed to content_missing so far
    content_add_n,    \* per content id, times it was passed to content_add
    directory_add_n,  \* per directory id, times passed to directory_add
    last_op,          \* the last operation: its name, its arguments, the
                      \* content ids merge_objects dropped in it, the
                      \* answer of content_missing and the content ids
                      \* shallow_content_to_content was applied to
    last_calls,       \* store calls and removals made by the last operation
    run_pc,           \* LoadSnapshotPackages.run: position
    package_names,    \* run's arguments
    pkgs,             \* the packages prepare_packages returned
    sorted_pkgs,      \* run's sorted package list
    run_calls,        \* store calls made by run
    run_tmpdir,       \* whether run's tmpdir exists on disk
    conv_in,          \* converters: the arguments of the calls
    conv_out,         \* converters: the values returned
    conv_done,        \* converters: the functions that have returned
    fin_pc,           \* end of a batch: position of the consumer
    partial_packages, \* partial_result['packages']
    fin_log,          \* whether the consumer passes a logger (log is not None)
    packages_w_revisions,  \* the list flush_revision returned
    default_occurrences,   \* the default_occurrences argument
    fin_calls,        \* store calls of the end of a batch, with their records
    log_events        \* events sent to the logger

lib_vars == <<content, directory, content_seen, directory_seen,
              ret_packages, tempdirs, gen_state, input_log, n_yields,
              fs_dirs, fs_files, content_queried, content_add_n,
              directory_add_n,
              last_op, last_calls>>
run_vars == <<run_pc, package_names, pkgs, sorted_pkgs, run_calls, run_tmpdir>>
conv_vars == <<conv_in, conv_out, conv_done>>
fin_vars == <<fin_pc, partial_packages, fin_log, packages_w_revisions,
              default_occurrences, fin_calls, log_events>>
vars == <<lib_vars, run_vars, conv_vars, fin_vars>>

\* ----------------------------------------------------------------- helpers
Range(s) == { s[k] : k \in 1..Len(s) }

RECURSIVE SumLength(_)
SumLength(S) ==
    IF S = {} THEN 0
    ELSE LET c == CHOOSE x \in S : TRUE IN Length[c] + SumLength(S \ {c})

EmptyMap == [c \in {} |-> 0]

\* The transient file of the n-th blob with identifier c in the tree
\* extracted under the temporary directory i.
File(i, c, n) == [dir |-> i, id |-> c, copy |-> n]
\* copy number of the blob at position k of a walk
Copy(members, k) ==
    Cardinality({ j \in 1..k : members[j] = members[k] })

\* ------------------------------------------------------------- converters
\* dedup_objects that keeps the last object met under each identifier.
RECURSIVE dedup_objects_last(_, _, _, _, _)
dedup_objects_last(i, members, k, ret, remove_duplicates) ==
    IF k > Len(members) THEN ret
    ELSE LET member == members[k] IN
         IF member.type = "blob"
         THEN dedup_objects_last(i, members, k + 1,
                [ret EXCEPT !.content =
                   [c \in DOMAIN ret.content \cup {member.id} |->
                      IF c = member.id THEN File(i, c, Copy(members, k))
                      ELSE ret.content[c]]],
                remove_duplicates)
         ELSE dedup_objects_last(i, members, k + 1,
                [ret EXCEPT !.directory = @ \cup {member.id}],
                remove_duplicates)

\* dedup_objects: visits the members in order; keeps the first object met
\* under each identifier; unlinks the path of a later blob with an identifier
\* already present. ret is [content, directory, unlinked].
RECURSIVE dedup_objects(_, _, _, _, _)
dedup_objects(i, members, k, ret, remove_duplicates) ==
    IF k > Len(members) THEN ret
    ELSE LET member == members[k] IN
         IF member.type = "blob"
         THEN IF member.id \notin DOMAIN ret.content
              THEN dedup_objects(i, members, k + 1,
                     [ret EXCEPT !.content =
                        [c \in DOMAIN ret.content \cup {member.id} |->
                           IF c = member.id THEN File(i, c, Copy(members, k))
                           ELSE ret.content[c]]],
                     remove_duplicates)
              ELSE dedup_objects(i, members, k + 1,
                     [ret EXCEPT !.unlinked =
                        IF remove_duplicates
                        THEN @ \cup {File(i, member.id, Copy(members, k))}
                        ELSE @],
                     remove_duplicates)
         ELSE dedup_objects(i, members, k + 1,
                [ret EXCEPT !.directory = @ \cup {member.id}],
                remove_duplicates)

\* merge_objects that unlinks the files of the dropped contents whatever
\* remove_duplicates is.
merge_objects_ignores_flag(accumulator, updates, remove_duplicates) ==
    LET new_c == DOMAIN updates.content \ accumulator.content_seen
        new_d == updates.directory \ accumulator.directory_seen
    IN [content |->
            [c \in DOMAIN accumulator.content \cup new_c |->
                IF c \in new_c THEN updates.content[c]
                ELSE accumulator.content[c]],
        content_seen |-> accumulator.content_seen \cup new_c,
        directory |-> accumulator.directory \cup new_d,
        directory_seen |-> accumulator.directory_seen \cup new_d,
        dropped |-> DOMAIN updates.content \cap accumulator.content_seen,
        unlinked |-> { updates.content[c] :
                         c \in DOMAIN updates.content
                                  \cap accumulator.content_seen }]

\* merge_objects with the membership test on the seen-set left out.
merge_objects_unseen(accumulator, updates, remove_duplicates) ==
    [content |->
        [c \in DOMAIN accumulator.content \cup DOMAIN updates.content |->
            IF c \in DOMAIN updates.content THEN updates.content[c]
            ELSE accumulator.content[c]],
     content_seen |-> accumulator.content_seen \cup DOMAIN updates.content,
     directory |-> accumulator.directory \cup updates.directory,
     directory_seen |-> accumulator.directory_seen \cup updates.directory,
     dropped |-> {},
     unlinked |-> {}]

\* merge_objects that leaves the files of the contents it drops on disk.
merge_objects_keeps_files(accumulator, updates, remove_duplicates) ==
    LET new_c == DOMAIN updates.content \ accumulator.content_seen
        new_d == updates.directory \ accumulator.directory_seen
    IN [content |->
            [c \in DOMAIN accumulator.content \cup new_c |->
                IF c \in new_c THEN updates.content[c]
                ELSE accumulator.content[c]],
        content_seen |-> accumulator.content_seen \cup new_c,
        directory |-> accumulator.directory \cup new_d,
        directory_seen |-> accumulator.directory_seen \cup new_d,
        dropped |-> DOMAIN updates.content \cap accumulator.content_seen,
        unlinked |-> {}]

\* merge_objects that replaces the seen-sets by the identifiers it adds.
merge_objects_replaces_seen(accumulator, updates, remove_duplicates) ==
    LET new_c == DOMAIN updates.content \ accumulator.content_seen
        new_d == updates.directory \ accumulator.directory_seen
    IN [content |->
            [c \in DOMAIN accumulator.content \cup new_c |->
                IF c \in new_c THEN updates.content[c]
                ELSE accumulator.content[c]],
        content_seen |-> new_c,
        directory |-> accumulator.directory \cup new_d,
        directory_seen |-> new_d,
        dropped |-> DOMAIN updates.content \cap accumulator.content_seen,
        unlinked |-> IF remove_duplicates
                     THEN { updates.content[c] :
                              c \in DOMAIN updates.content
                                       \cap accumulator.content_seen }
                     ELSE {}]

\* merge_objects that unlinks, for a content already seen, the file the
\* accumulator holds in the place of the file of the update.
merge_objects_unlinks_pending(accumulator, updates, remove_duplicates) ==
    LET new_c == DOMAIN updates.content \ accumulator.content_seen
        new_d == updates.directory \ accumulator.directory_seen
    IN [content |->
            [c \in DOMAIN accumulator.content \cup new_c |->
                IF c \in new_c THEN updates.content[c]
                ELSE accumulator.content[c]],
        content_seen |-> accumulator.content_seen \cup new_c,
        directory |-> accumulator.directory \cup new_d,
        directory_seen |-> accumulator.directory_seen \cup new_d,
        dropped |-> DOMAIN updates.content \cap accumulator.content_seen,
        unlinked |-> IF remove_duplicates
                     THEN { accumulator.content[c] :
                              c \in DOMAIN updates.content
                                       \cap DOMAIN accumulator.content }
                     ELSE {}]

\* merge_objects: per class, adds the identifiers not yet seen to the working
\* mapping and to the seen-set; unlinks the file of a content already seen.
\* dropped holds the content ids it does not add, unlinked the files it
\* unlinks.
merge_objects(accumulator, updates, remove_duplicates) ==
    LET new_c == DOMAIN updates.content \ accumulator.content_seen
        new_d == updates.directory \ accumulator.directory_seen
    IN [content |->
            [c \in DOMAIN accumulator.content \cup new_c |->
                IF c \in new_c THEN updates.content[c]
                ELSE accumulator.content[c]],
        content_seen |-> accumulator.content_seen \cup new_c,
        directory |-> accumulator.directory \cup new_d,
        directory_seen |-> accumulator.directory_seen \cup new_d,
        dropped |-> DOMAIN updates.content \cap accumulator.content_seen,
        unlinked |-> IF remove_duplicates
                     THEN { updates.content[c] :
                              c \in DOMAIN updates.content
                                       \cap accumulator.content_seen }
                     ELSE {}]

\* What last_op records of an operation.
NoArgs ==
    [content_packet_size |-> 0, content_packet_length |-> 0,
     content_max_length_one |-> 0, directory_packet_size |-> 0]
NoLocals == [n_content |-> 0, len_contents |-> 0, n_directory |-> 0]
Op(name) ==
    [op |-> name, force |-> FALSE, args |-> NoArgs, locals |-> NoLocals,
     dropped |-> {}, missing |-> {}, materialized |-> {}]

objects ==
    [content |-> content, content_seen |-> content_seen,
     directory |-> directory, directory_seen |-> directory_seen]

\* ------------------------------------------------------------------- init
LibInit ==
    /\ content = EmptyMap
    /\ directory = {}
    /\ content_seen = {}
    /\ directory_seen = {}
    /\ ret_packages = <<>>
    /\ tempdirs = <<>>
    /\ gen_state = "created"
    /\ input_log = <<>>
    /\ n_yields = 0
    /\ fs_dirs = {}
    /\ fs_files = {}
    /\ content_queried = {}
    /\ content_add_n = [c \in ContentIds |-> 0]
    /\ directory_add_n = [d \in DirIds |-> 0]
    /\ last_op = Op("none")
    /\ last_calls = <<>>

RunIdle ==
    /\ run_pc = "idle"
    /\ package_names = {}
    /\ pkgs = {}
    /\ sorted_pkgs = <<>>
    /\ run_calls = <<>>
    /\ run_tmpdir = FALSE

\* no converter has been called
ConvIdle ==
    /\ conv_in = [obj |-> [length |-> 0, path |-> "path"],
                  content_max_length_one |-> 0, uid |-> "", encode |-> FALSE]
    /\ conv_out = [content |-> EmptyMap, person |-> EmptyMap]
    /\ conv_done = {}

\* no consumer is at the end of a batch
FinIdle ==
    /\ fin_pc = "idle"
    /\ partial_packages = <<>>
    /\ fin_log = FALSE
    /\ packages_w_revisions = <<>>
    /\ default_occurrences = <<>>
    /\ fin_calls = <<>>
    /\ log_events = <<>>

Init ==
    /\ LibInit
    /\ RunIdle
    /\ ConvIdle
    /\ FinIdle

\* ------------------------------------------------- process_source_packages
\* The consumer asks the generator for the next partial result.
GenNext ==
    /\ gen_state \in {"created", "suspended"}
    /\ gen_state' = "running"
    /\ last_op' = Op("next")
    /\ last_calls' = <<>>
    /\ UNCHANGED <<content, directory, content_seen, directory_seen,
                   ret_packages, tempdirs, input_log, n_yields, fs_dirs,
                   fs_files, content_queried, content_add_n, directory_add_n>>
    /\ UNCHANGED <<run_vars, conv_vars, fin_vars>>

\* The loop with the exception of process_source_package left uncaught: the
\* generator ends with it.
ProcessPackageSkipped_raises(outcome) ==
    LET i == Len(input_log) + 1 IN
    /\ gen_state = "running"
    /\ Len(input_log) < MaxPackages
    /\ outcome # "ok"
    /\ input_log' = Append(input_log, "skipped")
    /\ fs_dirs' = IF outcome = "no_dsc" THEN fs_dirs ELSE fs_dirs \cup {i}
    /\ gen_state' = "done"
    /\ last_op' = Op(outcome)
    /\ last_calls' = <<>>
    /\ UNCHANGED <<content, directory, content_seen, directory_seen,
                   ret_packages, tempdirs, n_yields, fs_files,
                   content_queried, content_add_n, directory_add_n>>
    /\ UNCHANGED <<run_vars, conv_vars, fin_vars>>

\* The loop with the `continue` of the except clauses left out: the partial
\* result is yielded for the skipped package too.
ProcessPackageSkipped_yields(outcome) ==
    LET i == Len(input_log) + 1 IN
    /\ gen_state = "running"
    /\ Len(input_log) < MaxPackages
    /\ outcome # "ok"
    /\ input_log' = Append(input_log, "skipped")
    /\ fs_dirs' = IF outcome = "no_dsc" THEN fs_dirs ELSE fs_dirs \cup {i}
    /\ n_yields' = n_yields + 1
    /\ gen_state' = "suspended"
    /\ last_op' = Op(outcome)
    /\ last_calls' = <<>>
    /\ UNCHANGED <<content, directory, content_seen, directory_seen,
                   ret_packages, tempdirs, fs_files,
                   content_queried, content_add_n, directory_add_n>>
    /\ UNCHANGED <<run_vars, conv_vars, fin_vars>>

\* One iteration of the loop over a package that process_source_package
\* fails on: the exception is caught and the loop continues.
ProcessPackageSkipped(outcome) ==
    LET i == Len(input_log) + 1 IN
    /\ gen_state = "running"
    /\ Len(input_log) < MaxPackages
    /\ outcome # "ok"
    /\ input_log' = Append(input_log, "skipped")
       \* tempfile.mkdtemp() runs after the test on the .dsc file
    /\ fs_dirs' = IF outcome = "no_dsc" THEN fs_dirs ELSE fs_dirs \cup {i}
    /\ gen_state' = "running"
    /\ last_op' = Op(outcome)
    /\ last_calls' = <<>>
    /\ UNCHANGED <<content, directory, content_seen, directory_seen,
                   ret_packages, tempdirs, n_yields, fs_files,
                   content_queried, content_add_n, directory_add_n>>
    /\ UNCHANGED <<run_vars, conv_vars, fin_vars>>

\* One iteration of the loop over a package that is processed: the package is
\* appended, its objects merged, its basedir recorded, and the partial
\* result yielded.
ProcessPackageOk(walk) ==
    LET i == Len(input_log) + 1
        package_objs == dedup_objects(i, walk, 1,
                          [content |-> EmptyMap, directory |-> {}, unlinked |-> {}],
                          TRUE)
        merged == merge_objects(objects, package_objs, TRUE)
        extracted == { File(i, walk[k].id, Copy(walk, k)) :
                          k \in { j \in 1..Len(walk) : walk[j].type = "blob" } }
        ret_package == [name |-> i, basedir |-> i]
    IN
    /\ gen_state = "running"
    /\ Len(input_log) < MaxPackages
    /\ input_log' = Append(input_log, "ok")
    /\ fs_dirs' = fs_dirs \cup {i}
    /\ fs_files' = (fs_files \cup extracted)
                     \ (package_objs.unlinked \cup merged.unlinked)
    /\ ret_packages' = Append(ret_packages, ret_package)
    /\ content' = merged.content
    /\ content_seen' = merged.content_seen
    /\ directory' = merged.directory
    /\ directory_seen' = merged.directory_seen
    /\ tempdirs' = Append(tempdirs, ret_package.basedir)
    /\ n_yields' = n_yields + 1
    /\ gen_state' = "suspended"
    /\ last_op' = [Op("merge") EXCEPT !.dropped = merged.dropped]
    /\ last_calls' = <<>>
    /\ UNCHANGED <<content_queried, content_add_n, directory_add_n>>
    /\ UNCHANGED <<run_vars, conv_vars, fin_vars>>

\* The input iterable is exhausted: the generator returns.
GenExhausted ==
    /\ gen_state = "running"
    /\ gen_state' = "done"
    /\ last_op' = Op("stop")
    /\ last_calls' = <<>>
    /\ UNCHANGED <<content, directory, content_seen, directory_seen,
                   ret_packages, tempdirs, input_log, n_yields, fs_dirs,
                   fs_files, content_queried, content_add_n, directory_add_n>>
    /\ UNCHANGED <<run_vars, conv_vars, fin_vars>>

\* ------------------------------------------------------------------ flush
\* The consumer holds a partial result once one was yielded; its members are
\* the generator's own objects, packages and tempdirs.
HoldsPartial == n_yields > 0 /\ gen_state \in {"suspended", "done"}

\* flush_content: the store calls it makes, in order, when the store answers
\* that the contents `missing` are missing.
flush_content_calls(missing) ==
    <<"content_missing">>
    \o (IF missing # {} THEN <<"content_add">> ELSE <<>>)

\* flush_directory: the store call it makes.
flush_directory_calls == <<"directory_add">>

\* remove_tempdirs: the removal of the recorded directories.
remove_tempdirs_calls == <<"remove_tempdirs">>

\* try_flush_partial that flushes on every call.
should_flush_always(force, n_content, len_contents, n_directory, args) == TRUE

\* try_flush_partial with > in the place of >= in the test of the thresholds.
should_flush_strict(force, n_content, len_contents, n_directory, args) ==
    \/ force
    \/ n_content > args.content_packet_size
    \/ len_contents > args.content_packet_length
    \/ n_directory > args.directory_packet_size

\* try_flush_partial: the test that decides the flush.
should_flush(force, n_content, len_contents, n_directory, args) ==
    \/ force
    \/ n_content >= args.content_packet_size
    \/ len_contents >= args.content_packet_length
    \/ n_directory >= args.directory_packet_size

\* try_flush_partial that sums the lengths of all the pending contents.
len_contents_of_all(force, args) ==
    IF force THEN 0 ELSE SumLength(DOMAIN content)

\* try_flush_partial: the volume of the pending contents.
len_contents_of(force, args) ==
    IF force THEN 0
    ELSE SumLength({ c \in DOMAIN content :
                        Length[c] <= args.content_max_length_one })

\* flush_content that converts every pending content, missing or not.
full_contents_all(missing_ids) == DOMAIN content

\* flush_content: the identifiers shallow_content_to_content is applied to,
\* one per element of the store's answer.
full_contents(missing_ids) == { i \in DOMAIN content : i \in missing_ids }

\* content_add(full_contents): the contents in `missing` are written.
content_add(missing) ==
    [c \in ContentIds |->
        IF c \in missing THEN content_add_n[c] + 1 ELSE content_add_n[c]]

\* flush_directory that empties the mapping and writes no directory.
directory_add_none(directories) == directory_add_n

\* directory_add(directories): the pending directories are written.
directory_add(directories) ==
    [d \in DirIds |->
        IF d \in directories THEN directory_add_n[d] + 1 ELSE directory_add_n[d]]

\* flush_content that leaves the content mapping as it is.
content_kept == content

\* flush_content: the content mapping it leaves in the partial result.
content_cleared == EmptyMap

\* flush_directory: the directory mapping it leaves in the partial result.
directory_cleared == {}

\* remove_tempdirs that removes nothing from the disk.
rmtree_none(dirs) == fs_dirs

\* remove_tempdirs: the directories on disk once each recorded directory that
\* exists has been removed.
rmtree(dirs) == fs_dirs \ Range(dirs)

\* remove_tempdirs that empties a copy of the list: the generator's list
\* keeps its elements.
tempdirs_kept == tempdirs

\* remove_tempdirs: the tempdirs list it leaves (emptied in place).
tempdirs_cleared == <<>>

\* try_flush_partial that flushes the directories before the contents.
try_flush_partial_calls_swapped(missing) ==
    flush_directory_calls \o flush_content_calls(missing)
    \o remove_tempdirs_calls

\* try_flush_partial: what a flush does, in order.
try_flush_partial_calls(missing) ==
    flush_content_calls(missing) \o flush_directory_calls
    \o remove_tempdirs_calls

\* flush_content alone, on the partial result. The store answers
\* content_missing with any subset of the identifiers it was asked about.
FlushContent ==
    /\ HoldsPartial
    /\ \E missing \in SUBSET (DOMAIN content) :
          /\ content_add_n' = content_add(full_contents(missing))
          /\ last_calls' = flush_content_calls(missing)
          /\ last_op' = [Op("flush_content") EXCEPT
                            !.missing = missing,
                            !.materialized = full_contents(missing)]
    /\ content_queried' = content_queried \cup DOMAIN content
    /\ content' = content_cleared
    /\ UNCHANGED <<directory, content_seen, directory_seen, ret_packages,
                   tempdirs, gen_state, input_log, n_yields, fs_dirs,
                   fs_files, directory_add_n>>
    /\ UNCHANGED <<run_vars, conv_vars, fin_vars>>

\* flush_directory that empties directory_seen with the directory mapping.
FlushDirectory_clears_seen ==
    /\ HoldsPartial
    /\ directory_add_n' = directory_add(directory)
    /\ last_calls' = flush_directory_calls
    /\ directory' = directory_cleared
    /\ directory_seen' = {}
    /\ last_op' = Op("flush_directory")
    /\ UNCHANGED <<content, content_seen, ret_packages,
                   tempdirs, gen_state, input_log, n_yields, fs_dirs,
                   fs_files, content_queried, content_add_n>>
    /\ UNCHANGED <<run_vars, conv_vars, fin_vars>>

\* flush_directory alone, on the partial result.
FlushDirectory ==
    /\ HoldsPartial
    /\ directory_add_n' = directory_add(directory)
    /\ last_calls' = flush_directory_calls
    /\ directory' = directory_cleared
    /\ last_op' = Op("flush_directory")
    /\ UNCHANGED <<content, content_seen, directory_seen, ret_packages,
                   tempdirs, gen_state, input_log, n_yields, fs_dirs,
                   fs_files, content_queried, content_add_n>>
    /\ UNCHANGED <<run_vars, conv_vars, fin_vars>>

\* try_flush_partial(storage, partial_result, <args>, force): when the test
\* holds, flush_content, then flush_directory, then remove_tempdirs.
TryFlushPartial(force, args) ==
    LET n_content == Cardinality(DOMAIN content)
        n_directory == Cardinality(directory)
        len_contents == len_contents_of(force, args)
    IN
    /\ HoldsPartial
    /\ IF should_flush(force, n_content, len_contents, n_directory, args)
       THEN /\ \E missing \in SUBSET (DOMAIN content) :
                  /\ content_add_n' = content_add(full_contents(missing))
                  /\ last_calls' = try_flush_partial_calls(missing)
                  /\ last_op' = [Op("try_flush_partial") EXCEPT
                         !.force = force, !.args = args,
                         !.locals = [n_content |-> n_content,
                                     len_contents |-> len_contents,
                                     n_directory |-> n_directory],
                         !.missing = missing,
                         !.materialized = full_contents(missing)]
            /\ content_queried' = content_queried \cup DOMAIN content
            /\ content' = content_cleared
            /\ directory_add_n' = directory_add(directory)
            /\ directory' = directory_cleared
            /\ fs_dirs' = rmtree(tempdirs)
            /\ fs_files' = { f \in fs_files : f.dir \notin Range(tempdirs) }
            /\ tempdirs' = tempdirs_cleared
       ELSE /\ last_calls' = <<>>
            /\ last_op' = [Op("try_flush_partial") EXCEPT
                              !.force = force, !.args = args,
                              !.locals = [n_content |-> n_content,
                                          len_contents |-> len_contents,
                                          n_directory |-> n_directory]]
            /\ UNCHANGED <<content, directory, content_queried, content_add_n,
                           directory_add_n, fs_dirs, fs_files, tempdirs>>
    /\ UNCHANGED <<content_seen, directory_seen, ret_packages, gen_state,
                   input_log, n_yields>>
    /\ UNCHANGED <<run_vars, conv_vars, fin_vars>>

\* flush_content with the assignment of the empty mapping in a finally
\* clause: the mapping is cleared when a store call raises too.
content_unflushed_cleared == EmptyMap

\* flush_content left by an exception of content_missing or content_add: the
\* assignment that empties the mapping is not reached.
content_unflushed == content

\* flush_content: the store calls made when `call` raises.
flush_content_calls_raised(call) ==
    IF call = "content_missing" THEN <<"content_missing">>
    ELSE <<"content_missing", "content_add">>

\* try_flush_partial on which content_missing or content_add raises: the
\* exception leaves flush_content and try_flush_partial, neither of which
\* has a handler, and unwinds the consumer, which has none either; the
\* generator is not resumed. content_add had consumed any part of the
\* contents to write when it raised.
TryFlushPartial_raises(force, args, call) ==
    LET n_content == Cardinality(DOMAIN content)
        n_directory == Cardinality(directory)
        len_contents == len_contents_of(force, args)
    IN
    /\ HoldsPartial
    /\ should_flush(force, n_content, len_contents, n_directory, args)
       \* content_add is called when the store's answer is not empty; the
       \* contents written are among those of the answer
    /\ call = "content_add" => content # EmptyMap
    /\ \E written \in SUBSET (DOMAIN content) :
          /\ call = "content_missing" => written = {}
          /\ content_add_n' = content_add(written)
          /\ last_op' = [Op("try_flush_partial_raised") EXCEPT
                 !.force = force, !.args = args,
                 !.locals = [n_content |-> n_content,
                             len_contents |-> len_contents,
                             n_directory |-> n_directory],
                 !.materialized = written]
    /\ last_calls' = flush_content_calls_raised(call)
    /\ content_queried' = IF call = "content_add"
                          THEN content_queried \cup DOMAIN content
                          ELSE content_queried
    /\ content' = content_unflushed
    /\ gen_state' = "closed"
    /\ UNCHANGED <<directory, directory_add_n, fs_dirs, fs_files, tempdirs>>
    /\ UNCHANGED <<content_seen, directory_seen, ret_packages,
                   input_log, n_yields>>
    /\ UNCHANGED <<run_vars, conv_vars, fin_vars>>

\* ------------------------------------------------- LoadSnapshotPackages.run
\* sort key of run: (name, version)
KeyLess(p, q) ==
    \/ NameRank[p.name] < NameRank[q.name]
    \/ p.name = q.name /\ p.version < q.version

\* sorted_pkgs.sort(key=lambda p: (p['name'], p['version']))
RECURSIVE SortPkgs(_)
SortPkgs(S) ==
    IF S = {} THEN <<>>
    ELSE LET least == CHOOSE p \in S : \A q \in S \ {p} : KeyLess(p, q)
         IN <<least>> \o SortPkgs(S \ {least})

\* origin_add_one is called once per package name
RECURSIVE OriginCalls(_)
OriginCalls(S) ==
    IF S = {} THEN <<>>
    ELSE LET n == CHOOSE x \in S : TRUE
         IN <<"origin_add_one">> \o OriginCalls(S \ {n})

RunInit ==
    /\ LibInit
    /\ run_pc = "start"
    /\ package_names \in SUBSET Names
    /\ pkgs = {}
    /\ sorted_pkgs = <<>>
    /\ run_calls = <<>>
    /\ run_tmpdir = FALSE
    /\ ConvIdle
    /\ FinIdle

\* run, up to prepare_origins: tmpdir is created, prepare_packages returns
\* the versions of the named packages whose files the database holds (one
\* package per name and version), prepare_origins registers one origin per
\* name.
RunPrepare ==
    /\ run_pc = "start"
    /\ run_tmpdir' = TRUE
    /\ \E found \in SUBSET { p \in SourcePackages : p.name \in package_names } :
          /\ \A p \in found, q \in found :
                p.name = q.name /\ p.version = q.version => p = q
          /\ pkgs' = found
    /\ run_calls' = OriginCalls(package_names)
    /\ run_pc' = "prepared"
    /\ UNCHANGED <<package_names, sorted_pkgs>>
    /\ UNCHANGED <<lib_vars, conv_vars, fin_vars>>

\* run: the packages are listed and sorted by name and version.
RunSort ==
    /\ run_pc = "prepared"
    /\ sorted_pkgs' = SortPkgs(pkgs)
    /\ run_pc' = "sorted"
    /\ UNCHANGED <<package_names, pkgs, run_calls, run_tmpdir>>
    /\ UNCHANGED <<lib_vars, conv_vars, fin_vars>>

\* run with the call of process_source_packages made to work and the test of
\* `partial` left out: the final flush and the three writes are made.
RunProcessPackages_unguarded ==
    /\ run_pc = "sorted"
    /\ run_calls' = run_calls \o <<"content_missing", "directory_add",
                                   "revision_add", "release_add",
                                   "occurrence_add">>
    /\ run_tmpdir' = FALSE
    /\ run_pc' = "done"
    /\ UNCHANGED <<package_names, pkgs, sorted_pkgs>>
    /\ UNCHANGED <<lib_vars, conv_vars, fin_vars>>

\* run: process_source_packages(sorted_pkgs, keyrings, tmpdir, log=self.log).
\* The function takes (packages, keyrings, log=None): tmpdir is bound to log,
\* which the keyword gives again, so the call raises TypeError before the
\* generator exists. The exception leaves run: no package is processed, no
\* flush or write follows, and tmpdir stays on disk.
RunProcessPackages ==
    /\ run_pc = "sorted"
    /\ run_pc' = "raised"
    /\ UNCHANGED <<package_names, pkgs, sorted_pkgs, run_calls, run_tmpdir>>
    /\ UNCHANGED <<lib_vars, conv_vars, fin_vars>>

RunNext ==
    \/ RunPrepare
    \/ RunSort
    \/ RunProcessPackages

RunSpec == RunInit /\ [][RunNext]_vars

\* run is one sequential call: it goes on until it returns or raises.
RunFairSpec == RunSpec /\ WF_vars(RunNext)

\* ------------------------------------------------- converters, one by one
\* a dictionary with key k set to v, and with key k deleted
DictSet(d, k, v) == [x \in DOMAIN d \cup {k} |-> IF x = k THEN v ELSE d[x]]
DictDel(d, k) == [x \in DOMAIN d \ {k} |-> d[x]]

\* The lengths of the files and the ceilings the converter is called with.
Lengths == 0..5
Ceilings == {2, 4}

\* The shallow contents blob_to_shallow_content returns: the blob of the
\* walk with its length, always with its path; `'data' not in content` tells
\* a blob that came without its bytes from one that came with them.
ShallowContents ==
    { [length |-> l, path |-> "path"] : l \in Lengths }
    \cup { [length |-> l, path |-> "path", data |-> "bytes"] : l \in Lengths }

\* shallow_content_to_content that gives no reason with the absent status.
shallow_content_to_content_no_reason(obj, content_max_length_one) ==
    LET copy ==
          IF obj.length > content_max_length_one
          THEN DictSet(obj, "status", "absent")
          ELSE IF "data" \notin DOMAIN obj
               THEN DictSet(DictSet(obj, "status", "visible"),
                            "data", "bytes")
               ELSE obj
    IN DictDel(copy, "path")

\* shallow_content_to_content
shallow_content_to_content(obj, content_max_length_one) ==
    LET copy ==
          IF obj.length > content_max_length_one
          THEN DictSet(DictSet(obj, "status", "absent"),
                       "reason", "Content too large")
          ELSE IF "data" \notin DOMAIN obj
               THEN DictSet(DictSet(obj, "status", "visible"),
                            "data", "bytes")
               ELSE obj
    IN DictDel(copy, "path")

\* The uids the converter is called with, and what email.utils.parseaddr
\* returns on each: (name, address).
Uids == {"Jane Doe <jane@example.org>", "jane@example.org", "Jane Doe <>", ""}
parseaddr(uid) ==
    CASE uid = "Jane Doe <jane@example.org>" -> <<"Jane Doe", "jane@example.org">>
      [] uid = "jane@example.org" -> <<"", "jane@example.org">>
      [] uid = "Jane Doe <>" -> <<"Jane Doe", "">>
      [] uid = "" -> <<"", "">>

\* The truth value of `email` in uid_to_person: the name is bound to the
\* imported module, the parsed address is `mail`.
email == TRUE

\* uid_to_person; encoded tells the str values from the bytes values
uid_to_person(uid, encode) ==
    LET name == parseaddr(uid)[1]
        mail == parseaddr(uid)[2]
        ret == IF name # "" /\ email
               THEN [name |-> name, email |-> mail]
               ELSE [name |-> uid, email |-> ""]
    IN [name |-> ret.name, email |-> ret.email, encoded |-> encode]

ConvInit ==
    /\ LibInit
    /\ RunIdle
    /\ FinIdle
    /\ conv_in \in [obj : ShallowContents,
                     content_max_length_one : Ceilings,
                     uid : Uids, encode : BOOLEAN]
    /\ conv_out = [content |-> EmptyMap, person |-> EmptyMap]
    /\ conv_done = {}

\* a call of shallow_content_to_content
ShallowContentToContent ==
    /\ "shallow_content_to_content" \notin conv_done
    /\ conv_out' = [conv_out EXCEPT !.content =
          shallow_content_to_content(conv_in.obj,
                                     conv_in.content_max_length_one)]
    /\ conv_done' = conv_done \cup {"shallow_content_to_content"}
    /\ UNCHANGED <<conv_in, lib_vars, run_vars, fin_vars>>

\* a call of uid_to_person
UidToPerson ==
    /\ "uid_to_person" \notin conv_done
    /\ conv_out' = [conv_out EXCEPT !.person =
          uid_to_person(conv_in.uid, conv_in.encode)]
    /\ conv_done' = conv_done \cup {"uid_to_person"}
    /\ UNCHANGED <<conv_in, lib_vars, run_vars, fin_vars>>

ConvNext ==
    \/ ShallowContentToContent
    \/ UidToPerson

ConvSpec == ConvInit /\ [][ConvNext]_vars

\* ------------------------------------------- functions on files and objects
\* The files get_file_info is called on: the path is text or bytes.
Files ==
    [dirname : {"resources"}, basename : {"onefile.txt"}, bytes : BOOLEAN,
     data : {"x", "y"}, st_size : {0, 62}]

\* os.path.basename: of the type of the path; bytes.decode('utf-8')
basename(filepath) == [text |-> filepath.basename, bytes |-> filepath.bytes]
decode(b) == [b EXCEPT !.bytes = FALSE]

\* hashutil.hashfile: one digest, in bytes, per algorithm;
\* hashutil.hash_to_hex: the digest in hexadecimal text
ALGORITHMS == {"sha1", "sha1_git", "sha256", "blake2s256"}
hashfile(filepath) ==
    [h \in ALGORITHMS |-> [digest |-> <<h, filepath.data>>, hex |-> FALSE]]
hash_to_hex(hash) == [hash EXCEPT !.hex = TRUE]

\* get_file_info with the digests as hashfile returns them.
get_file_info_raw(filepath) ==
    LET name == basename(filepath)
        hashes == hashfile(filepath)
        ret == [k \in {"name"} \cup DOMAIN hashes |->
                  IF k \in DOMAIN hashes THEN hashes[k] ELSE name]
    IN DictSet(ret, "length", filepath.st_size)

\* get_file_info: the name, then one key per hash, then the length
get_file_info(filepath) ==
    LET name == IF basename(filepath).bytes
                THEN decode(basename(filepath)) ELSE basename(filepath)
        hashes == hashfile(filepath)
        ret == [k \in {"name"} \cup DOMAIN hashes |->
                  IF k \in DOMAIN hashes THEN hash_to_hex(hashes[k]) ELSE name]
    IN DictSet(ret, "length", filepath.st_size)

\* The objects dedup_objects is called on, as the sequence of members it
\* visits.
Members == { Blob(c) : c \in ContentIds } \cup { Tree(d) : d \in DirIds }
MemberLists == UNION { [1..n -> Members] : n \in 1..3 }

\* The accumulators and the updates merge_objects is called on: the pending
\* objects of an accumulator are seen; the files of the accumulator are of
\* the package 1, the ones of the updates of the package 2.
Accumulators ==
    { [content |-> [c \in pc |-> File(1, c, 1)], content_seen |-> sc,
       directory |-> pd, directory_seen |-> sd] :
        pc \in SUBSET ContentIds, sc \in SUBSET ContentIds,
        pd \in SUBSET DirIds, sd \in SUBSET DirIds }
Updates ==
    { [content |-> [c \in uc |-> File(2, c, 1)], directory |-> ud] :
        uc \in SUBSET ContentIds, ud \in SUBSET DirIds }

FuncInit ==
    /\ LibInit
    /\ RunIdle
    /\ FinIdle
    /\ conv_in \in
          { [fn |-> "get_file_info", filepath |-> f] : f \in Files }
          \cup { [fn |-> "dedup_objects", objects |-> l,
                  remove_duplicates |-> r] :
                   l \in MemberLists, r \in BOOLEAN }
          \cup { [fn |-> "merge_objects", accumulator |-> a, updates |-> u,
                  remove_duplicates |-> r] :
                   a \in { x \in Accumulators :
                             /\ DOMAIN x.content \subseteq x.content_seen
                             /\ x.directory \subseteq x.directory_seen },
                   u \in Updates, r \in BOOLEAN }
    /\ conv_out = EmptyMap
    /\ conv_done = {}

\* a call of get_file_info
GetFileInfo ==
    /\ conv_in.fn = "get_file_info"
    /\ conv_done = {}
    /\ conv_out' = get_file_info(conv_in.filepath)
    /\ conv_done' = {"get_file_info"}
    /\ UNCHANGED <<conv_in, lib_vars, run_vars, fin_vars>>

\* a call of dedup_objects, on the objects of the package 1
DedupObjects ==
    /\ conv_in.fn = "dedup_objects"
    /\ conv_done = {}
    /\ conv_out' = dedup_objects(1, conv_in.objects, 1,
                       [content |-> EmptyMap, directory |-> {},
                        unlinked |-> {}],
                       conv_in.remove_duplicates)
    /\ conv_done' = {"dedup_objects"}
    /\ UNCHANGED <<conv_in, lib_vars, run_vars, fin_vars>>

\* a call of merge_objects
MergeObjects ==
    /\ conv_in.fn = "merge_objects"
    /\ conv_done = {}
    /\ conv_out' = merge_objects(conv_in.accumulator, conv_in.updates,
                                 conv_in.remove_duplicates)
    /\ conv_done' = {"merge_objects"}
    /\ UNCHANGED <<conv_in, lib_vars, run_vars, fin_vars>>

FuncNext ==
    \/ GetFileInfo
    \/ DedupObjects
    \/ MergeObjects

FuncSpec == FuncInit /\ [][FuncNext]_vars

\* ------------------------------------------------------ the end of a batch
\* The longest packages list a partial result holds at the end of a batch.
MaxFinalPackages == 2

ROBOT_AUTHOR ==
    [name |-> "Software Heritage", email |-> "robot@softwareheritage.org"]

\* package_info['pgp_signature']: None when get_gpg_info_signature raised
\* ValueError, else the dictionary it returned.
None == [type |-> "None"]
Signatures == {None, [type |-> "dict", date |-> 3, keyid |-> "key"]}

\* package_info['changelog']
Changelogs ==
    { [person |-> [name |-> "Jane Doe", email |-> "jane@example.org"],
       date |-> d] : d \in {1, 2} }

\* str(package['version'])
str(version) == IF version = 1 THEN "1.0-1" ELSE "1.0-2"

\* The packages of partial_result['packages']: the package of the caller,
\* with its origin_id, augmented by process_source_package with the
\* identifier of its root directory and its metadata.
ProcessedPackages ==
    { [name |-> n, version |-> v,
       origin_id |-> NameRank[n],
       directory |-> IF n = "bar" THEN "d1" ELSE "d2",
       metadata |-> [package_info |-> [changelog |-> c,
                                        pgp_signature |-> g]]] :
        n \in Names, v \in Versions, c \in Changelogs, g \in Signatures }

\* The default_occurrences lists of the caller.
DefaultOccurrenceLists ==
    LET swh_authority == [authority |-> "swh", validity |-> 7]
        other == [authority |-> "other", validity |-> 8]
    IN { <<>>, <<swh_authority>>, <<swh_authority, other>> }

\* identifiers.revision_identifier, identifiers.release_identifier: the
\* identifier is the hash of the fields it is computed from, kept here as
\* the fields themselves.
revision_identifier(ret) ==
    <<"revision", ret.directory, ret.parents, ret.author, ret.date,
      ret.committer, ret.committer_date, ret.message>>
release_identifier(ret) ==
    <<"release", ret.name, ret.target, ret.target_type, ret.author, ret.date,
      ret.message>>

\* package_to_revision with the date of the changelog taken in every case.
committer_date_changelog(metadata) ==
    metadata.package_info.changelog.date

\* package_to_revision: the committer date.
committer_date(metadata) ==
    LET signature == metadata.package_info.pgp_signature IN
    IF signature # None
    THEN signature.date
    ELSE metadata.package_info.changelog.date

\* package_to_revision that gives the revision a parent and no synthetic
\* flag.
package_to_revision_child(package, log) ==
    LET metadata == package.metadata
        ret == [author |-> metadata.package_info.changelog.person,
                date |-> metadata.package_info.changelog.date,
                committer |-> ROBOT_AUTHOR,
                committer_date |-> committer_date(metadata),
                type |-> "dsc",
                directory |-> package.directory,
                message |-> <<"Synthetic revision", package.name,
                              str(package.version)>>,
                synthetic |-> FALSE,
                parents |-> <<package.directory>>]
    IN [revision |-> DictSet(ret, "id", revision_identifier(ret)),
        events |-> <<>>]

\* package_to_revision: the revision, and the events sent to the logger
\* (none when log is None).
package_to_revision(package, log) ==
    LET metadata == package.metadata
        signature == metadata.package_info.pgp_signature
        ret == [author |-> metadata.package_info.changelog.person,
                date |-> metadata.package_info.changelog.date,
                committer |-> ROBOT_AUTHOR,
                committer_date |-> committer_date(metadata),
                type |-> "dsc",
                directory |-> package.directory,
                message |-> <<"Synthetic revision", package.name,
                              str(package.version)>>,
                synthetic |-> TRUE,
                parents |-> <<>>]
    IN [revision |-> DictSet(ret, "id", revision_identifier(ret)),
        events |-> IF signature = None /\ log
                   THEN <<"deb_missing_signature">> ELSE <<>>]

\* package_to_release
package_to_release(package) ==
    LET package_info == package.metadata.package_info
        ret == [author |-> package_info.changelog.person,
                date |-> package_info.changelog.date,
                target |-> package.revision.id,
                target_type |-> "revision",
                message |-> <<"Synthetic release", package.name,
                              str(package.version)>>,
                synthetic |-> TRUE,
                name |-> str(package.version)]
    IN DictSet(ret, "id", release_identifier(ret))

\* the events of the first k conversions, in order
RECURSIVE Events(_, _)
Events(converted, k) ==
    IF k = 0 THEN <<>> ELSE Events(converted, k - 1) \o converted[k].events

\* flush_revision that passes only the revision of the last package to
\* revision_add.
flush_revision_last(packages, log) ==
    LET n == Len(packages)
        converted == [k \in 1..n |-> package_to_revision(packages[k], log)]
    IN [packages |-> [k \in 1..n |->
                        DictSet(packages[k], "revision", converted[k].revision)],
        revisions |-> IF n = 0 THEN <<>> ELSE <<converted[n].revision>>,
        events |-> Events(converted, n)]

\* flush_revision: copies of the packages, each with its revision; the
\* revisions passed to revision_add, one per package in order; the events
\* logged.
flush_revision(packages, log) ==
    LET n == Len(packages)
        converted == [k \in 1..n |-> package_to_revision(packages[k], log)]
    IN [packages |-> [k \in 1..n |->
                        DictSet(packages[k], "revision", converted[k].revision)],
        revisions |-> [k \in 1..n |-> converted[k].revision],
        events |-> Events(converted, n)]

\* flush_release that builds every release from the last package.
flush_release_of_last(packages) ==
    LET n == Len(packages)
        releases == [k \in 1..n |-> package_to_release(packages[n])]
    IN [packages |-> [k \in 1..n |->
                        DictSet(packages[k], "release", releases[k])],
        releases |-> releases]

\* flush_release: the packages, each with its release added in place; the
\* releases passed to release_add, one per package in order.
flush_release(packages) ==
    LET n == Len(packages)
        releases == [k \in 1..n |-> package_to_release(packages[k])]
    IN [packages |-> [k \in 1..n |->
                        DictSet(packages[k], "release", releases[k])],
        releases |-> releases]

\* the occurrence of a package for a default occurrence
occurrence_of(package, default_occurrence) ==
    DictSet(DictSet(DictSet(default_occurrence,
                            "revision", package.revision.id),
                    "branch", str(package.version)),
            "origin", package.origin_id)

\* flush_occurrences without the copy of the default occurrence: every
\* package writes into the same dictionaries, which are the caller's.
flush_occurrences_no_copy(packages, defaults) ==
    LET n == Len(packages)
        m == Len(defaults)
        written == [j \in 1..m |->
                      IF n = 0 THEN defaults[j]
                      ELSE occurrence_of(packages[n], defaults[j])]
    IN [occurrences |-> [k \in 1..(n * m) |-> written[((k - 1) % m) + 1]],
        default_occurrences |-> written]

\* flush_occurrences: for each package in order, for each default occurrence
\* in order, a copy of the default occurrence with revision, branch and
\* origin set; the caller's default occurrences as the call leaves them.
flush_occurrences(packages, defaults) ==
    LET n == Len(packages)
        m == Len(defaults)
    IN [occurrences |-> [k \in 1..(n * m) |->
                           occurrence_of(packages[((k - 1) \div m) + 1],
                                         defaults[((k - 1) % m) + 1])],
        default_occurrences |-> defaults]

\* The consumer holds the last partial result of a batch: its packages list
\* holds at least the package the result was yielded for.
FinInit ==
    /\ LibInit
    /\ RunIdle
    /\ ConvIdle
    /\ fin_pc = "partial"
    /\ \E n \in 1..MaxFinalPackages :
          partial_packages \in [1..n -> ProcessedPackages]
    /\ fin_log \in BOOLEAN
    /\ packages_w_revisions = <<>>
    /\ default_occurrences \in DefaultOccurrenceLists
    /\ fin_calls = <<>>
    /\ log_events = <<>>

\* packages = flush_revision(storage, partial, log)
FlushRevision ==
    LET ret == flush_revision(partial_packages, fin_log) IN
    /\ fin_pc = "partial"
    /\ packages_w_revisions' = ret.packages
    /\ fin_calls' = Append(fin_calls, [call |-> "revision_add",
                                       records |-> ret.revisions])
    /\ log_events' = log_events \o ret.events
    /\ fin_pc' = "revisions"
    /\ UNCHANGED <<partial_packages, fin_log, default_occurrences>>
    /\ UNCHANGED <<lib_vars, run_vars, conv_vars>>

\* flush_release(storage, packages), on the list flush_revision returned
FlushRelease ==
    LET ret == flush_release(packages_w_revisions) IN
    /\ fin_pc = "revisions"
    /\ packages_w_revisions' = ret.packages
    /\ fin_calls' = Append(fin_calls, [call |-> "release_add",
                                       records |-> ret.releases])
    /\ fin_pc' = "releases"
    /\ UNCHANGED <<partial_packages, fin_log, default_occurrences, log_events>>
    /\ UNCHANGED <<lib_vars, run_vars, conv_vars>>

\* flush_occurrences(storage, packages, default_occurrences), on the list
\* flush_revision returned, with or without the releases
FlushOccurrences ==
    LET ret == flush_occurrences(packages_w_revisions, default_occurrences) IN
    /\ fin_pc \in {"revisions", "releases"}
    /\ default_occurrences' = ret.default_occurrences
    /\ fin_calls' = Append(fin_calls, [call |-> "occurrence_add",
                                       records |-> ret.occurrences])
    /\ fin_pc' = "occurrences"
    /\ UNCHANGED <<partial_packages, fin_log, packages_w_revisions, log_events>>
    /\ UNCHANGED <<lib_vars, run_vars, conv_vars>>

FinNext ==
    \/ FlushRevision
    \/ FlushRelease
    \/ FlushOccurrences

FinSpec == FinInit /\ [][FinNext]_vars

\* ------------------------------------------------------------------- spec
Next ==
    \/ GenNext
    \/ \E outcome \in Outcomes \ {"ok"} : ProcessPackageSkipped(outcome)
    \/ \E walk \in Walks : ProcessPackageOk(walk)
    \/ GenExhausted
    \/ FlushContent
    \/ FlushDirectory
    \/ \E force \in BOOLEAN, args \in Configs : TryFlushPartial(force, args)
    \/ \E force \in BOOLEAN, args \in Configs,
          call \in {"content_missing", "content_add"} :
             TryFlushPartial_raises(force, args, call)

Spec == Init /\ [][Next]_vars

\* -------------------------------------------------------------- properties
Copies(c) == Cardinality({ f \in fs_files : f.id = c })

\* the positions of the processed packages in the input, in order
OkIndices ==
    SelectSeq([k \in 1..Len(input_log) |-> k], LAMBDA k : input_log[k] = "ok")

\* a step that consumed a package from the input and skipped it
SkipStep ==
    /\ Len(input_log') = Len(input_log) + 1
    /\ input_log'[Len(input_log')] = "skipped"

\* C1: once an identifier is in content_seen (directory_seen), no step adds
\* it to the content (directory) mapping again, whatever flushes cleared the
\* mapping in between.
SeenNeverRequeued ==
    [][ /\ \A c \in content_seen : c \in DOMAIN content' => c \in DOMAIN content
        /\ \A d \in directory_seen : d \in directory' => d \in directory ]_vars

\* C1 witness: a package was merged whose content was dropped as already
\* seen after a flush had cleared it from the mapping, and whose root
\* directory was dropped the same way.
SeenDroppedAfterFlush ==
    /\ last_op.op = "merge"
    /\ \E c \in last_op.dropped : c \notin DOMAIN content
    /\ directory = {}
    /\ directory_seen # {}

\* C2: every content identifier is passed to content_add at most once and
\* every directory identifier to directory_add at most once over the batch,
\* and a content_add call directly follows the content_missing query of the
\* same flush.
WrittenAtMostOnce ==
    /\ \A c \in ContentIds : content_add_n[c] <= 1
    /\ \A d \in DirIds : directory_add_n[d] <= 1
    /\ \A k \in 1..Len(last_calls) :
          last_calls[k] = "content_add" =>
             k > 1 /\ last_calls[k - 1] = "content_missing"

\* C2 witness: a flush that writes no content, after an earlier flush wrote
\* one that a later package held again.
SecondFlushWritesNothing ==
    /\ last_op.op = "try_flush_partial"
    /\ last_calls = <<"content_missing", "directory_add", "remove_tempdirs">>
    /\ \E c \in ContentIds : content_add_n[c] = 1
    /\ Len(ret_packages) >= 2
    /\ \A d \in DirIds : directory_add_n[d] = 1

SkippedPackageLeavesNothing ==
    [][ /\ SkipStep =>
            /\ UNCHANGED <<content, directory, content_seen, directory_seen,
                           ret_packages, n_yields, content_queried,
                           content_add_n, directory_add_n>>
            /\ gen_state' = "running"
        /\ \A k \in 1..Len(ret_packages') :
              input_log'[ret_packages'[k].name] = "ok" ]_vars

\* C4 witness: a package was processed after a skipped one.
ProcessedAfterSkipped ==
    /\ input_log = <<"skipped", "ok">>
    /\ Len(ret_packages) = 1
    /\ ret_packages[1].name = 2
    /\ content # EmptyMap

\* C5 as stated: the temporary directory of a skipped package that exists on
\* disk is recorded in tempdirs.
SkippedTempdirRecorded ==
    \A i \in 1..Len(input_log) :
       input_log[i] = "skipped" /\ i \in fs_dirs => i \in Range(tempdirs)

\* C6: the number of snapshots yielded is the number of processed packages,
\* and the packages list is the processed packages in input order.
OneSnapshotPerProcessed ==
    /\ n_yields = Len(OkIndices)
    /\ Len(ret_packages) = n_yields
    /\ \A k \in 1..Len(ret_packages) : ret_packages[k].name = OkIndices[k]

\* C6 witness: of three packages the second was skipped; two snapshots.
TwoOfThreeYielded ==
    /\ input_log = <<"ok", "skipped", "ok">>
    /\ n_yields = 2
    /\ gen_state = "suspended"

\* C7 as stated: try_flush_partial flushes exactly when force is set or a
\* count or the volume is strictly greater than its threshold.
FlushIffAboveThreshold ==
    [][ last_op'.op = "try_flush_partial" =>
          (last_calls' # <<>> <=>
             \/ last_op'.force
             \/ Cardinality(DOMAIN content) > last_op'.args.content_packet_size
             \/ SumLength({ c \in DOMAIN content :
                    Length[c] <= last_op'.args.content_max_length_one })
                  > last_op'.args.content_packet_length
             \/ Cardinality(directory) > last_op'.args.directory_packet_size)
      ]_vars

\* C7 amended: try_flush_partial flushes exactly when force is set or a
\* count or the volume is at least its threshold.
FlushIffAtThreshold ==
    [][ last_op'.op = "try_flush_partial" =>
          (last_calls' # <<>> <=>
             \/ last_op'.force
             \/ Cardinality(DOMAIN content) >= last_op'.args.content_packet_size
             \/ SumLength({ c \in DOMAIN content :
                    Length[c] <= last_op'.args.content_max_length_one })
                  >= last_op'.args.content_packet_length
             \/ Cardinality(directory) >= last_op'.args.directory_packet_size)
      ]_vars

\* C7 witness: an unforced try_flush_partial flushed with the content count
\* equal to content_packet_size and the other two under their thresholds.
FlushedAtThreshold ==
    /\ last_op.op = "try_flush_partial"
    /\ ~last_op.force
    /\ last_calls # <<>>
    /\ last_op.locals.n_content = last_op.args.content_packet_size
    /\ last_op.locals.len_contents < last_op.args.content_packet_length
    /\ last_op.locals.n_directory < last_op.args.directory_packet_size

\* C8: a try_flush_partial that flushes does the content flush, then the
\* directory flush, then the removal of the temporary directories, and leaves
\* the two mappings and the tempdirs list empty and no recorded directory on
\* disk.
FlushIsWholeAndOrdered ==
    last_op.op = "try_flush_partial" /\ last_calls # <<>> =>
       /\ last_calls \in
             { <<"content_missing", "content_add", "directory_add",
                 "remove_tempdirs">>,
               <<"content_missing", "directory_add", "remove_tempdirs">> }
       /\ content = EmptyMap
       /\ directory = {}
       /\ tempdirs = <<>>
       /\ \A k \in 1..Len(ret_packages) : ret_packages[k].basedir \notin fs_dirs
       /\ fs_files = {}

\* C8 witness: the directory threshold alone fired and the pending contents
\* were flushed with the directories.
DirectoryThresholdFlushedAll ==
    /\ last_op.op = "try_flush_partial"
    /\ ~last_op.force
    /\ last_calls = <<"content_missing", "content_add", "directory_add",
                      "remove_tempdirs">>
    /\ last_op.locals.n_directory >= last_op.args.directory_packet_size
    /\ last_op.locals.n_content < last_op.args.content_packet_size
    /\ last_op.locals.len_contents < last_op.args.content_packet_length
    /\ last_op.locals.n_content > 0

\* run is over: it returned or an exception left it
RunEnded == run_pc \in {"done", "raised"}

\* the calls of the end of a batch, in order
Finalization == <<"revision_add", "release_add", "occurrence_add">>

\* C9 as stated: when run is over a batch that holds a package
\* process_source_package succeeds on, the store has seen the final flush,
\* then revision_add, then release_add, then occurrence_add, as its last
\* calls.
RunFinalizesInOrder ==
    RunEnded /\ (\E k \in 1..Len(sorted_pkgs) : sorted_pkgs[k].extracts) =>
       /\ Len(run_calls) >= 5
       /\ SubSeq(run_calls, Len(run_calls) - 2, Len(run_calls)) = Finalization
       /\ run_calls[Len(run_calls) - 3] = "directory_add"
       /\ \E k \in 1..(Len(run_calls) - 4) : run_calls[k] = "content_missing"

\* C10: when run is over and no partial result was yielded, the store has
\* seen no content_missing, content_add, directory_add, revision_add,
\* release_add or occurrence_add call.
NoWriteWithoutPackage ==
    RunEnded /\ n_yields = 0 =>
       \A k \in 1..Len(run_calls) : run_calls[k] = "origin_add_one"

\* C10 witness: run is over on a batch of two packages, none of which
\* process_source_package succeeds on.
RunOverFailedBatch ==
    /\ RunEnded
    /\ n_yields = 0
    /\ Len(sorted_pkgs) = 2
    /\ \A k \in 1..Len(sorted_pkgs) : ~sorted_pkgs[k].extracts
    /\ run_calls # <<>>

\* a step in which flush_content ran, alone or within try_flush_partial
FlushContentStep ==
    \/ last_op'.op = "flush_content"
    \/ last_op'.op = "try_flush_partial" /\ last_calls' # <<>>

\* the content ids passed to content_add in a step
Added == { c \in ContentIds : content_add_n'[c] # content_add_n[c] }

\* C11: flush_content asks the store about the pending content ids, first;
\* the ids it passes to content_add are exactly the ids the store answered
\* are missing, each passed once; shallow_content_to_content is applied to
\* exactly those ids; content_add is called iff the answer is not empty; and
\* the content mapping is empty afterwards.
FlushContentWritesMissing ==
    [][FlushContentStep =>
          /\ last_calls'[1] = "content_missing"
          /\ content_queried' = content_queried \cup DOMAIN content
          /\ Added = last_op'.missing
          /\ \A c \in Added : content_add_n'[c] = content_add_n[c] + 1
          /\ last_op'.materialized = last_op'.missing
          /\ ("content_add" \in Range(last_calls')) <=> (last_op'.missing # {})
          /\ content' = EmptyMap]_vars

\* C11 witness: flush_content has just written the contents the store
\* answered are missing, while another content it asked about was not
\* missing and has never been written.
MissingWrittenOthersNot ==
    /\ last_op.op = "flush_content"
    /\ last_op.missing # {}
    /\ \A c \in last_op.missing : content_add_n[c] = 1
    /\ \E c \in content_queried \ last_op.missing : content_add_n[c] = 0
    /\ content = EmptyMap

\* C12: flush_content leaves content_seen, directory_seen, the directory
\* mapping and the packages list as they are and writes no directory;
\* flush_directory passes every pending directory to directory_add, with no
\* other store call, empties the directory mapping, and leaves content_seen,
\* directory_seen, the content mapping and the packages list as they are and
\* writes no content; a flush of try_flush_partial leaves the seen-sets and
\* the packages list as they are.
FlushLeavesOtherClass ==
    [][/\ last_op'.op = "flush_content" =>
             UNCHANGED <<content_seen, directory_seen, directory,
                         directory_add_n, ret_packages>>
       /\ last_op'.op = "flush_directory" =>
             /\ last_calls' = <<"directory_add">>
             /\ \A d \in DirIds :
                   directory_add_n'[d] =
                      directory_add_n[d] + (IF d \in directory THEN 1 ELSE 0)
             /\ directory' = {}
             /\ UNCHANGED <<content, content_seen, directory_seen,
                            content_add_n, content_queried, ret_packages>>
       /\ FlushContentStep =>
             UNCHANGED <<content_seen, directory_seen, ret_packages>>]_vars

\* C12 witness: flush_directory has just written the pending directories
\* while contents were pending, after an earlier flush_content.
DirectoryFlushedContentPending ==
    /\ last_op.op = "flush_directory"
    /\ directory = {}
    /\ directory_seen # {}
    /\ \E d \in directory_seen : directory_add_n[d] = 1
    /\ content # EmptyMap
    /\ content_queried # {}
    /\ ret_packages # <<>>

\* C13 as stated: the content shallow_content_to_content returns is absent
\* iff the length exceeds the ceiling, visible with its data iff the length
\* is at most the ceiling, holds no data when absent, and holds no path.
AbsentIffAboveCeiling ==
    "shallow_content_to_content" \in conv_done =>
       LET L == conv_in.obj.length
           C == conv_in.content_max_length_one
           ret == conv_out.content
           status == IF "status" \in DOMAIN ret THEN ret.status ELSE "unset"
       IN /\ status = "absent" <=> L > C
          /\ (status = "visible" /\ "data" \in DOMAIN ret) <=> L <= C
          /\ status = "absent" => "data" \notin DOMAIN ret
          /\ "path" \notin DOMAIN ret

\* C19 as stated: uid_to_person returns the parsed name and address iff
\* both are non-empty, and otherwise the whole uid as the name with an empty
\* address.
PersonSplitIffBothParsed ==
    "uid_to_person" \in conv_done =>
       LET name == parseaddr(conv_in.uid)[1]
           mail == parseaddr(conv_in.uid)[2]
       IN IF name # "" /\ mail # ""
          THEN conv_out.person.name = name /\ conv_out.person.email = mail
          ELSE conv_out.person.name = conv_in.uid /\ conv_out.person.email = ""

\* the records of the calls of a store function at the end of a batch
CallsOf(name) ==
    { k \in 1..Len(fin_calls) : fin_calls[k].call = name }
RecordsOf(name) ==
    fin_calls[CHOOSE k \in CallsOf(name) : TRUE].records

\* the consumer has called flush_revision, flush_release
RevisionsFlushed == fin_pc \in {"revisions", "releases", "occurrences"}
ReleasesFlushed == CallsOf("release_add") # {}

\* C14: once flush_revision returned, revision_add was called once, with as
\* many records as the packages list of the partial result holds, the k-th
\* being the revision of the k-th package; the same for release_add once
\* flush_release returned; before, neither was called. (The packages list
\* holds the processed packages and no skipped one: C6.)
OneRevisionOneReleasePerPackage ==
    /\ Cardinality(CallsOf("revision_add")) = (IF RevisionsFlushed THEN 1 ELSE 0)
    /\ Cardinality(CallsOf("release_add")) \in {0, 1}
    /\ fin_pc = "releases" => ReleasesFlushed
    /\ RevisionsFlushed =>
          /\ Len(RecordsOf("revision_add")) = Len(partial_packages)
          /\ \A k \in 1..Len(partial_packages) :
                /\ RecordsOf("revision_add")[k].message =
                      <<"Synthetic revision", partial_packages[k].name,
                        str(partial_packages[k].version)>>
                /\ RecordsOf("revision_add")[k].directory =
                      partial_packages[k].directory
    /\ ReleasesFlushed =>
          /\ Len(RecordsOf("release_add")) = Len(partial_packages)
          /\ \A k \in 1..Len(partial_packages) :
                RecordsOf("release_add")[k].message =
                   <<"Synthetic release", partial_packages[k].name,
                     str(partial_packages[k].version)>>

\* C14 witness: two different packages were processed, and two revisions
\* and two releases written.
TwoRevisionsTwoReleases ==
    /\ fin_pc = "releases"
    /\ Len(partial_packages) = 2
    /\ partial_packages[1].name # partial_packages[2].name
    /\ Len(RecordsOf("revision_add")) = 2
    /\ Len(RecordsOf("release_add")) = 2

\* C15: the k-th release passed to release_add targets the identifier of
\* the k-th revision passed to revision_add, which is the revision
\* flush_revision set on the k-th package; its target_type is 'revision',
\* it is synthetic and its name is the version string of the k-th package.
ReleaseTargetsOwnRevision ==
    ReleasesFlushed =>
       \A k \in 1..Len(RecordsOf("release_add")) :
          LET release == RecordsOf("release_add")[k] IN
          /\ release.target = RecordsOf("revision_add")[k].id
          /\ release.target = packages_w_revisions[k].revision.id
          /\ release.target_type = "revision"
          /\ release.synthetic = TRUE
          /\ release.name = str(partial_packages[k].version)
          /\ packages_w_revisions[k].release = release

\* C15 witness: two releases were written for two packages with different
\* revisions and different versions.
TwoReleasesTwoTargets ==
    /\ ReleasesFlushed
    /\ Len(RecordsOf("release_add")) = 2
    /\ RecordsOf("release_add")[1].target # RecordsOf("release_add")[2].target
    /\ RecordsOf("release_add")[1].name # RecordsOf("release_add")[2].name
    /\ RecordsOf("release_add")[1].target = RecordsOf("revision_add")[1].id

\* C16: flush_occurrences passes |packages| x |default_occurrences| records
\* to occurrence_add, in one call; the record of package i and default
\* occurrence j has the identifier of the revision of package i, the
\* version string of package i as branch, the origin_id of package i as
\* origin, and the other fields of default occurrence j; the default
\* occurrences and the packages are as before the call.
OccurrencePerPackageAndDefault ==
    [][fin_pc' = "occurrences" /\ fin_pc # "occurrences" =>
          LET n == Len(packages_w_revisions)
              m == Len(default_occurrences)
              last == fin_calls'[Len(fin_calls')]
          IN /\ Len(fin_calls') = Len(fin_calls) + 1
             /\ last.call = "occurrence_add"
             /\ Len(last.records) = n * m
             /\ \A i \in 1..n, j \in 1..m :
                   LET occurrence == last.records[(i - 1) * m + j] IN
                   /\ occurrence.revision = RecordsOf("revision_add")[i].id
                   /\ occurrence.revision = packages_w_revisions[i].revision.id
                   /\ occurrence.branch = str(partial_packages[i].version)
                   /\ occurrence.origin = partial_packages[i].origin_id
                   /\ DOMAIN occurrence =
                         DOMAIN default_occurrences[j]
                            \cup {"revision", "branch", "origin"}
                   /\ \A key \in DOMAIN default_occurrences[j] :
                         occurrence[key] = default_occurrences[j][key]
             /\ default_occurrences' = default_occurrences
             /\ packages_w_revisions' = packages_w_revisions
             /\ partial_packages' = partial_packages]_vars

\* C16 witness: four occurrences were written for two packages of different
\* names and versions and two default occurrences.
FourOccurrencesWritten ==
    /\ fin_pc = "occurrences"
    /\ Len(partial_packages) = 2
    /\ partial_packages[1].name # partial_packages[2].name
    /\ partial_packages[1].version # partial_packages[2].version
    /\ Len(default_occurrences) = 2
    /\ Len(fin_calls[Len(fin_calls)].records) = 4

\* C17: every revision passed to revision_add, and every revision set on a
\* package, has an empty parents list and synthetic = True.
RevisionsAreSyntheticRoots ==
    /\ \A c \in CallsOf("revision_add") :
          \A k \in 1..Len(fin_calls[c].records) :
             /\ fin_calls[c].records[k].parents = <<>>
             /\ fin_calls[c].records[k].synthetic = TRUE
    /\ \A k \in 1..Len(packages_w_revisions) :
          /\ packages_w_revisions[k].revision.parents = <<>>
          /\ packages_w_revisions[k].revision.synthetic = TRUE

\* C17 witness: the revisions of a signed and of an unsigned package were
\* built.
SignedAndUnsignedRevisions ==
    /\ fin_pc = "revisions"
    /\ Len(RecordsOf("revision_add")) = 2
    /\ \E k \in 1..2 :
          partial_packages[k].metadata.package_info.pgp_signature = None
    /\ \E k \in 1..2 :
          partial_packages[k].metadata.package_info.pgp_signature # None

\* the packages of the partial result that have no signature
Unsigned ==
    { k \in 1..Len(partial_packages) :
         partial_packages[k].metadata.package_info.pgp_signature = None }

\* the committer date and the committer of every revision built
CommitterDates ==
    \A k \in 1..Len(partial_packages) :
       LET package_info == partial_packages[k].metadata.package_info
           revision == RecordsOf("revision_add")[k]
       IN /\ k \notin Unsigned =>
                revision.committer_date = package_info.pgp_signature.date
          /\ k \in Unsigned =>
                /\ revision.committer_date = package_info.changelog.date
                /\ revision.committer_date = revision.date
          /\ revision.committer = ROBOT_AUTHOR

\* C18 as stated: once flush_revision returned (no exception), the revision
\* of a signed package has the date of the signature as committer date, the
\* revision of an unsigned package the date of the changelog, which is its
\* author date, every committer is the robot identity, and one event was
\* logged per unsigned package.
UnsignedPackageLogged ==
    RevisionsFlushed =>
       /\ CommitterDates
       /\ Len(log_events) = Cardinality(Unsigned)

\* C18, amended: the same, with one event logged per unsigned package when
\* a logger was passed and none when log is None.
UnsignedPackageLoggedIfLogger ==
    RevisionsFlushed =>
       /\ CommitterDates
       /\ Len(log_events) = (IF fin_log THEN Cardinality(Unsigned) ELSE 0)
       /\ \A k \in 1..Len(log_events) :
             log_events[k] = "deb_missing_signature"

\* C18 witness: with a logger, the revisions of a signed and of an unsigned
\* package were built, the signature is later than the changelog, and one
\* event was logged.
UnsignedLoggedOnce ==
    /\ RevisionsFlushed
    /\ fin_log
    /\ Len(partial_packages) = 2
    /\ Cardinality(Unsigned) = 1
    /\ Len(log_events) = 1
    /\ \E k \in 1..2 :
          /\ k \notin Unsigned
          /\ RecordsOf("revision_add")[k].committer_date
                # RecordsOf("revision_add")[k].date

\* sorted_pkgs holds the packages prepare_packages returned, each once, in
\* ascending (name, version) order
SortedAscending ==
    /\ Range(sorted_pkgs) = pkgs
    /\ Len(sorted_pkgs) = Cardinality(pkgs)
    /\ \A k \in 1..(Len(sorted_pkgs) - 1) :
          KeyLess(sorted_pkgs[k], sorted_pkgs[k + 1])

\* C20 as stated: when run is over, the packages were sorted by (name,
\* version) and process_source_packages consumed them one at a time in that
\* order, each processed or skipped as its files allow, so that the
\* snapshots and the calls of the store are a function of the package set.
RunProcessesInOrder ==
    RunEnded =>
       /\ SortedAscending
       /\ Len(input_log) = Len(sorted_pkgs)
       /\ \A k \in 1..Len(sorted_pkgs) :
             input_log[k] = (IF sorted_pkgs[k].extracts THEN "ok" ELSE "skipped")

\* the k-th package of run is in a terminal state: skipped, or processed,
\* flushed, and its revision, release and occurrence written
PackageTerminal(k) ==
    /\ Len(input_log) >= k
    /\ \/ input_log[k] = "skipped"
       \/ /\ input_log[k] = "ok"
          /\ content = EmptyMap
          /\ directory = {}
          /\ \E a, b, c \in 1..Len(run_calls) :
                /\ a < b /\ b < c
                /\ run_calls[a] = "revision_add"
                /\ run_calls[b] = "release_add"
                /\ run_calls[c] = "occurrence_add"

\* C21 as stated: run ends, and when it is over every package of the batch
\* is in a terminal state: skipped, or merged, content-flushed,
\* directory-flushed and given its revision, release and occurrence, in this
\* order; none is left awaiting a flush.
RunReachesTerminalStates ==
    <>(RunEnded /\ \A k \in 1..Len(sorted_pkgs) : PackageTerminal(k))

\* C22: in a call of try_flush_partial without force, the volume compared
\* with content_packet_length is the sum of the lengths of the pending
\* contents of length at most content_max_length_one; the content count is
\* the number of all pending contents, oversized ones included; and the
\* flush is made iff one of the three reaches its threshold.
VolumeCountsOnlyPersistable ==
    [][last_op'.op = "try_flush_partial" /\ ~last_op'.force =>
          LET args == last_op'.args
              countable == { c \in DOMAIN content :
                                Length[c] <= args.content_max_length_one }
              oversized == DOMAIN content \ countable
              volume == SumLength(countable)
          IN /\ last_op'.locals.len_contents = volume
             /\ last_op'.locals.n_content =
                   Cardinality(countable) + Cardinality(oversized)
             /\ (last_calls' # <<>>) <=>
                   \/ Cardinality(DOMAIN content) >= args.content_packet_size
                   \/ volume >= args.content_packet_length
                   \/ Cardinality(directory) >= args.directory_packet_size]_vars

\* C22 witness: try_flush_partial did not flush a pending content longer
\* than content_max_length_one, whose length alone reaches
\* content_packet_length: it counted as a content and added no volume.
OversizedNotInVolume ==
    /\ last_op.op = "try_flush_partial"
    /\ ~last_op.force
    /\ last_calls = <<>>
    /\ \E c \in DOMAIN content :
          /\ Length[c] > last_op.args.content_max_length_one
          /\ Length[c] >= last_op.args.content_packet_length
    /\ last_op.locals.len_contents < last_op.args.content_packet_length
    /\ last_op.locals.n_content = Cardinality(DOMAIN content)

\* C23 as stated: a content longer than the ceiling is returned absent, with
\* the reason "too large".
AbsentReasonTooLarge ==
    "shallow_content_to_content" \in conv_done
       /\ conv_in.obj.length > conv_in.content_max_length_one =>
          /\ conv_out.content.status = "absent"
          /\ conv_out.content.reason = "too large"

\* C23, amended: a content longer than the ceiling is returned absent, with
\* the reason 'Content too large'; a content at or under the ceiling has no
\* reason and is not absent.
AbsentReasonContentTooLarge ==
    "shallow_content_to_content" \in conv_done =>
       IF conv_in.obj.length > conv_in.content_max_length_one
       THEN /\ conv_out.content.status = "absent"
            /\ "reason" \in DOMAIN conv_out.content
            /\ conv_out.content.reason = "Content too large"
       ELSE /\ "reason" \notin DOMAIN conv_out.content
            /\ "status" \in DOMAIN conv_out.content =>
                  conv_out.content.status # "absent"

\* C23 witness: a content of length 5 was converted under the ceiling 4 and
\* came back absent.
OversizedMarkedAbsent ==
    /\ "shallow_content_to_content" \in conv_done
    /\ conv_in.obj.length = 5
    /\ conv_in.content_max_length_one = 4
    /\ conv_out.content.status = "absent"

BlobsOf(members) == { k \in 1..Len(members) : members[k].type = "blob" }
TreesOf(members) == { k \in 1..Len(members) : members[k].type = "tree" }

\* C25: dedup_objects returns a content mapping with one entry per blob
\* identifier of the objects, holding the first blob met under it, and the
\* directory identifiers of the trees; with remove_duplicates it has
\* unlinked the path of every later blob of an identifier already present,
\* without it no path; the path of a kept blob is never unlinked.
DedupKeepsFirst ==
    "dedup_objects" \in conv_done =>
       LET members == conv_in.objects
           later == { File(1, members[k].id, Copy(members, k)) :
                        k \in { j \in BlobsOf(members) :
                                   Copy(members, j) > 1 } }
       IN /\ DOMAIN conv_out.content =
                { members[k].id : k \in BlobsOf(members) }
          /\ \A c \in DOMAIN conv_out.content :
                conv_out.content[c] = File(1, c, 1)
          /\ conv_out.directory = { members[k].id : k \in TreesOf(members) }
          /\ conv_out.unlinked =
                (IF conv_in.remove_duplicates THEN later ELSE {})
          /\ \A c \in DOMAIN conv_out.content :
                conv_out.content[c] \notin conv_out.unlinked

\* C25 witness: dedup_objects met the same blob twice, and a tree: the
\* second copy was unlinked and the first kept.
DuplicateBlobUnlinked ==
    /\ "dedup_objects" \in conv_done
    /\ conv_in.remove_duplicates
    /\ Len(conv_in.objects) = 3
    /\ \E c \in ContentIds :
          /\ conv_out.unlinked = {File(1, c, 2)}
          /\ conv_out.content[c] = File(1, c, 1)
    /\ conv_out.directory # {}

\* C26: merge_objects adds the update identifiers that are not in the
\* seen-set of their class to the working mapping and to the seen-set, and
\* drops the others; the objects pending before stay as they are; with
\* remove_duplicates it has unlinked the files of the dropped contents and
\* no other file, without it none; no file of a directory and no file of a
\* content just added is unlinked.
MergeAddsUnseenDropsSeen ==
    "merge_objects" \in conv_done =>
       LET accumulator == conv_in.accumulator
           updates == conv_in.updates
           added == DOMAIN updates.content \ accumulator.content_seen
           seen == DOMAIN updates.content \cap accumulator.content_seen
       IN /\ DOMAIN conv_out.content = DOMAIN accumulator.content \cup added
          /\ \A c \in added : conv_out.content[c] = updates.content[c]
          /\ \A c \in DOMAIN accumulator.content :
                conv_out.content[c] = accumulator.content[c]
          /\ conv_out.content_seen =
                accumulator.content_seen \cup DOMAIN updates.content
          /\ conv_out.directory =
                accumulator.directory
                   \cup (updates.directory \ accumulator.directory_seen)
          /\ conv_out.directory_seen =
                accumulator.directory_seen \cup updates.directory
          /\ conv_out.dropped = seen
          /\ conv_out.unlinked =
                (IF conv_in.remove_duplicates
                 THEN { updates.content[c] : c \in seen } ELSE {})
          /\ \A f \in conv_out.unlinked : f.id \in ContentIds
          /\ \A c \in added : updates.content[c] \notin conv_out.unlinked

\* C26 witness: merge_objects, without remove_duplicates, added a content
\* and a directory, and dropped a content and a directory already seen,
\* leaving the file of the dropped content on disk.
MergedWithoutRemoval ==
    /\ "merge_objects" \in conv_done
    /\ ~conv_in.remove_duplicates
    /\ conv_out.dropped # {}
    /\ conv_out.unlinked = {}
    /\ DOMAIN conv_out.content # DOMAIN conv_in.accumulator.content
    /\ conv_out.directory # conv_in.accumulator.directory
    /\ conv_in.updates.directory \cap conv_in.accumulator.directory_seen # {}

SnapshotSharesState ==
    gen_state = "suspended" =>
       /\ DOMAIN content \cap content_queried = {}
       /\ \A d \in directory : directory_add_n[d] = 0
       /\ Range(tempdirs) =
             { ret_packages[k].basedir : k \in 1..Len(ret_packages) }
                \cap fs_dirs
       /\ Len(ret_packages) =
             Cardinality({ i \in 1..Len(input_log) : input_log[i] = "ok" })
       /\ \A k \in 1..Len(ret_packages) :
             /\ input_log[ret_packages[k].name] = "ok"
             /\ k > 1 => ret_packages[k - 1].name < ret_packages[k].name

\* C28 witness: the second snapshot, yielded after a flush of the first: its
\* mappings hold what the second package brought, its tempdirs the second
\* directory alone, its packages both packages.
SnapshotAfterFlush ==
    /\ gen_state = "suspended"
    /\ last_op.op = "merge"
    /\ Len(ret_packages) = 2
    /\ Len(tempdirs) = 1
    /\ content_queried # {}
    /\ content # EmptyMap
    /\ directory # {}
    /\ DOMAIN content # content_seen
    /\ directory # directory_seen

\* C29: a flush of try_flush_partial removes from the disk every directory
\* in tempdirs, each of them the directory of a processed package that is
\* still on disk and listed once, and leaves tempdirs empty, so that no
\* later flush sees a directory again; a forced call always flushes, and
\* leaves tempdirs empty and no directory of a processed package on disk.
TempdirsRemovedOnce ==
    [][last_op'.op = "try_flush_partial" =>
          /\ last_op'.force => last_calls' # <<>>
          /\ last_calls' # <<>> =>
                /\ Range(tempdirs) \subseteq fs_dirs
                /\ \A j, k \in 1..Len(tempdirs) :
                      tempdirs[j] = tempdirs[k] => j = k
                /\ fs_dirs' = fs_dirs \ Range(tempdirs)
                /\ tempdirs' = <<>>
                /\ \A k \in 1..Len(ret_packages') :
                      ret_packages'[k].basedir \notin fs_dirs'
          /\ \A k \in 1..Len(ret_packages) :
                ret_packages[k].basedir \notin fs_dirs =>
                   ret_packages[k].basedir \notin Range(tempdirs)]_vars

\* C29 witness: between two snapshots, a flush that was not forced has removed
\* the directories of both packages processed so far; the directory of a
\* package that was skipped is all that is left on disk.
BothTempdirsRemoved ==
    /\ gen_state = "suspended"
    /\ last_op.op = "try_flush_partial"
    /\ ~last_op.force
    /\ last_calls # <<>>
    /\ Len(ret_packages) = 2
    /\ tempdirs = <<>>
    /\ Cardinality(fs_dirs) = 1
    /\ \A k \in 1..Len(ret_packages) : ret_packages[k].basedir \notin fs_dirs

\* C30: a call of try_flush_partial without force, with the number of
\* pending contents, their volume and the number of pending directories all
\* under their thresholds, makes no store call, removes nothing from the
\* disk and leaves the partial result as it was.
NoFlushUnderThresholds ==
    [][/\ last_op'.op = "try_flush_partial"
       /\ ~last_op'.force
       /\ Cardinality(DOMAIN content) < last_op'.args.content_packet_size
       /\ SumLength({ c \in DOMAIN content :
                        Length[c] <= last_op'.args.content_max_length_one })
             < last_op'.args.content_packet_length
       /\ Cardinality(directory) < last_op'.args.directory_packet_size
       => /\ last_calls' = <<>>
          /\ UNCHANGED <<content, directory, content_seen, directory_seen,
                         ret_packages, tempdirs>>
          /\ UNCHANGED <<fs_dirs, fs_files>>
          /\ UNCHANGED <<content_queried, content_add_n, directory_add_n>>]_vars

\* C30 witness: a call without force has returned without flushing, with
\* contents and directories pending and a temporary directory recorded.
CallUnderThresholdsReturned ==
    /\ last_op.op = "try_flush_partial"
    /\ ~last_op.force
    /\ last_calls = <<>>
    /\ last_op.locals.n_content >= 1
    /\ last_op.locals.n_content < last_op.args.content_packet_size
    /\ last_op.locals.len_contents < last_op.args.content_packet_length
    /\ last_op.locals.n_directory < last_op.args.directory_packet_size
    /\ content # EmptyMap
    /\ directory # {}
    /\ tempdirs # <<>>
    /\ Range(tempdirs) \subseteq fs_dirs

\* C31: when content_missing or content_add raises in a flush of
\* try_flush_partial, the content mapping is not cleared, directory_add is
\* not called, no temporary directory is removed, the directory mapping, the
\* seen sets, packages and tempdirs are unchanged, and nothing runs after
\* the exception: it is not caught.
StoreErrorNotCompensated ==
    [][/\ last_op'.op = "try_flush_partial_raised" =>
             /\ content' = content
             /\ \A k \in 1..Len(last_calls') :
                   last_calls'[k] \notin {"directory_add", "remove_tempdirs"}
             /\ last_calls'[Len(last_calls')]
                   \in {"content_missing", "content_add"}
             /\ UNCHANGED <<directory, directory_add_n, tempdirs, fs_dirs,
                            fs_files>>
             /\ UNCHANGED <<content_seen, directory_seen, ret_packages>>
       /\ last_op.op = "try_flush_partial_raised" => UNCHANGED vars]_vars

\* C31 witness: content_add has raised in a flush with contents and
\* directories pending and a temporary directory recorded; all of them are
\* still there.
ContentAddRaised ==
    /\ last_op.op = "try_flush_partial_raised"
    /\ last_calls = <<"content_missing", "content_add">>
    /\ content # EmptyMap
    /\ last_op.materialized # {}
    /\ last_op.materialized # DOMAIN content
    /\ directory # {}
    /\ tempdirs # <<>>
    /\ Range(tempdirs) \subseteq fs_dirs
    /\ \A d \in directory : directory_add_n[d] = 0

\* C32: after every step each pending content has its transient file on
\* disk, in a temporary directory that is on disk; a step that removes a
\* temporary directory is a flush in which every content with a file in it
\* was passed to content_missing and left the content mapping; the merge of
\* a package leaves the file of every content that was pending where it was.
PendingContentHasFile ==
    [][/\ \A c \in DOMAIN content' :
             /\ content'[c] \in fs_files'
             /\ content'[c].dir \in fs_dirs'
       /\ \A d \in fs_dirs \ fs_dirs' :
             /\ last_op'.op = "try_flush_partial"
             /\ "content_missing" \in Range(last_calls')
             /\ \A c \in DOMAIN content :
                   content[c].dir = d =>
                      /\ c \in content_queried'
                      /\ c \notin DOMAIN content'
       /\ last_op'.op = "merge" =>
             \A c \in DOMAIN content :
                /\ c \in DOMAIN content'
                /\ content'[c] = content[c]
                /\ content[c] \in fs_files']_vars

\* C32 witness: a second package holding a content that is pending from the
\* first has been merged: its copy was dropped and unlinked, the file of
\* the first package is still the one pending, on disk, and the directories
\* of both packages are on disk.
PendingFileSurvivesMerge ==
    /\ last_op.op = "merge"
    /\ Len(tempdirs) = 2
    /\ Range(tempdirs) \subseteq fs_dirs
    /\ \E c \in last_op.dropped :
          /\ c \in DOMAIN content
          /\ content[c].dir = tempdirs[1]
          /\ content[c] \in fs_files
          /\ \A f \in fs_files : f.id = c => f = content[c]

\* C33: after every step the keys of the content mapping are in
\* content_seen and the pending directories in directory_seen, and no step,
\* merge or flush, takes an identifier out of a seen-set.
SeenSetsCoverAndGrow ==
    [][/\ DOMAIN content' \subseteq content_seen'
       /\ directory' \subseteq directory_seen'
       /\ content_seen \subseteq content_seen'
       /\ directory_seen \subseteq directory_seen']_vars

\* C33 witness: the third package has been merged after a flush of the
\* first two: the mappings hold what it brought and the seen-sets hold that
\* and what was flushed.
SeenKeptAcrossFlushAndMerge ==
    /\ last_op.op = "merge"
    /\ Len(ret_packages) = 3
    /\ Len(tempdirs) = 1
    /\ content # EmptyMap
    /\ directory # {}
    /\ content_queried # {}
    /\ content_seen = DOMAIN content \cup content_queried
    /\ directory_seen = DirIds
    /\ \E d \in directory_seen : directory_add_n[d] = 1

TypeOK ==
    /\ DOMAIN content \subseteq content_seen
    /\ directory \subseteq directory_seen

====
